---- MODULE Spec2Model ----
(***************************************************************************)
(* State-machine model of the LocationApp screen (src/app/index.tsx).      *)
(*                                                                         *)
(* One action is one turn of the JavaScript event loop: a user press, a    *)
(* socket callback, a timer, or the continuation that runs when an awaited *)
(* native call settles.  A function of a render closes over the state      *)
(* values of that render: the socket handlers are created once, in the     *)
(* first render, and a retry timer re-enters the getCurrentLocation of the *)
(* render that scheduled it, so both keep the values they captured.        *)
(***************************************************************************)
EXTENDS Integers, Sequences, FiniteSets

\* ---------------------------------------------------------------- bounds
MaxCalls == 2        \* getCurrentLocation chains alive at once
MaxReports == 2      \* HTTP requests awaiting their response
MaxFix == 2          \* distinct positions the device can report
MaxRetryCount == 3   \* retryCount saturates here (the code only tests < MAX_RETRIES)
MaxFails == 3        \* history counters saturate here

\* ------------------------------------------------------------- constants
MAX_RETRIES == 3

\* null and undefined: a value that is no record
Null == <<>>
Undefined == <<>>

\* Location.LocationObject values the device can deliver
Fixes == {[coords |-> [latitude |-> a, longitude |-> a + 10]] : a \in 1..MaxFix}

\* error.message of a rejected native call
Causes == {"Location request timed out"}

ServicesOutcomes == {"enabled", "disabled", "throws"}
AndroidAnswers == {"granted", "denied", "never_ask_again", "throws"}
IosAnswers == {"granted", "denied", "undetermined", "throws"}
HttpOutcomes == {"success", "failure", "throws"}

\* --------------------------------------------------------------- alerts
WebSocketErrorAlert ==
    [title |-> "WebSocket Error",
     message |-> "An error occurred while connecting to the server."]
LocationErrorAlert ==
    [title |-> "Location Error",
     message |-> "Unable to get your location. Please try again."]
NoLocationAlert ==
    [title |-> "Error",
     message |-> "Location data is not available. Please refresh your location."]
SuccessAlert ==
    [title |-> "Success", message |-> "Location shared successfully via server."]
FailedAlert ==
    [title |-> "Failed",
     message |-> "Failed to send location via server. Please try again."]
SendErrorAlert ==
    [title |-> "Error",
     message |-> "Failed to send location to server. Please try again."]

\* ------------------------------------------------------- error descriptors
ServicesDisabledWrongType ==
    [message |-> "Location services are disabled. Please enable them in your device settings.",
     type |-> "error"]
ServicesDisabledError ==
    [message |-> "Location services are disabled. Please enable them in your device settings.",
     type |-> "warning"]
PermissionDeniedError ==
    [message |-> "Location permission denied. Please enable it in app settings.",
     type |-> "error"]
FailedToGetLocation(cause) ==
    [message |-> "Failed to get location: " \o cause, type |-> "error"]

VARIABLES
    platform,    \* Platform.OS
    mounted,     \* the screen is mounted
    location,    \* useState<LocationState>
    errorMsg,    \* useState<LocationError | null>
    mapRegion,   \* useState<Region | undefined>
    loading,     \* useState<boolean>
    retryCount,  \* useState<number>
    calls,       \* getCurrentLocation chains in start order: each awaits a native call or its retry timer
    reports,     \* axios.post requests awaiting their response
    ws,          \* readyState of the WebSocket
    wsCalls,     \* how often the screen called new WebSocket(), ws.close() and ws.send()
    alerts,      \* Alert.alert calls made by the last step
    posts,       \* bodies of the axios.post calls issued by the last step
    runFails,    \* history: fix failures of the acquisition under way, while it runs on its own
    runCatches,  \* history: retries it scheduled
    runDelays,   \* history: retry timers it saw fire
    overlapped   \* history: refresh was pressed while an acquisition was under way

vars == <<platform, mounted, location, errorMsg, mapRegion, loading, retryCount,
          calls, reports, ws, wsCalls, alerts, posts, runFails, runCatches,
          runDelays, overlapped>>

acq == <<location, errorMsg, mapRegion, loading, retryCount>>
hist == <<runFails, runCatches, runDelays, overlapped>>

\* ------------------------------------------------------------- helpers
Sat(n, cap) == IF n < cap THEN n + 1 ELSE cap

\* a state setter: React drops the update once the component is unmounted
SetState(old, new) == IF mounted THEN new ELSE old

\* the history counters follow one acquisition: they stop when a second one joins it
Count(n) == IF overlapped THEN n ELSE Sat(n, MaxFails)

Remove(seq, i) == SubSeq(seq, 1, i - 1) \o SubSeq(seq, i + 1, Len(seq))

Slots == 1..MaxCalls

Busy == calls # <<>>

\* a getCurrentLocation call is between its first line and its finally block
InFlight == \E i \in 1..Len(calls) : calls[i].pc # "timer"

\* the `location` the first render's closures captured
MountRenderLocation == Null

\* body of the POST: { lat: latitude, long: longitude }
PostBodySwapped(loc) ==
    [lat |-> loc.coords.longitude, long |-> loc.coords.latitude]
PostBody(loc) ==
    [lat |-> loc.coords.latitude, long |-> loc.coords.longitude]

\* region centred on a fix; the deltas 0.01 are kept in hundredths
RegionOf(loc) ==
    [latitude |-> loc.coords.latitude, longitude |-> loc.coords.longitude,
     latitudeDelta |-> 1, longitudeDelta |-> 1]

\* granted === PermissionsAndroid.RESULTS.GRANTED, false when the request throws
requestAndroidPermissionLax(answer) == answer \notin {"denied", "throws"}
requestAndroidPermission(answer) == answer = "granted"

\* status === 'granted'
IosHasPermission(answer) == answer = "granted"

\* retryCount < MAX_RETRIES, on the retryCount the running closure captured
ShouldRetry(rc) == rc < MAX_RETRIES

\* setRetryCount(0)
RetryCountAfterFixKept(rc) == rc
RetryCountAfterFix(rc) == 0

\* the synchronous part of sendLocationToServer, for the `location` its closure holds
sendLocationToServerNoGuard(loc) ==
    IF loc = Null
    THEN [alerts |-> <<SendErrorAlert>>, posts |-> <<>>]
    ELSE [alerts |-> <<>>, posts |-> <<PostBody(loc)>>]
sendLocationToServer(loc) ==
    IF loc = Null
    THEN [alerts |-> <<NoLocationAlert>>, posts |-> <<>>]
    ELSE [alerts |-> <<>>, posts |-> <<PostBody(loc)>>]

\* -------------------------------------------------------------- Init
\* the first render and its two effects: the socket is being opened and
\* getCurrentLocation() has run up to its first await
Init ==
    /\ platform \in {"android", "ios"}
    /\ mounted = TRUE
    /\ location = Null
    /\ errorMsg = Null
    /\ mapRegion = Undefined
    /\ loading = TRUE
    /\ retryCount = 0
    /\ calls = <<[pc |-> "services", retryCount |-> 0]>>
    /\ reports = <<>>
    /\ ws = "connecting"
    /\ wsCalls = [new |-> 1, close |-> 0, send |-> 0]
    /\ alerts = <<>>
    /\ posts = <<>>
    /\ runFails = 0
    /\ runCatches = 0
    /\ runDelays = 0
    /\ overlapped = FALSE

\* ------------------------------------------------- acquisition flow
\* the refresh button: getCurrentLocation of the current render
RefreshPress ==
    /\ mounted
    /\ Len(calls) < MaxCalls
    /\ calls' = Append(calls, [pc |-> "services", retryCount |-> retryCount])
    /\ loading' = TRUE
    /\ errorMsg' = Null
    /\ alerts' = <<>>
    /\ posts' = <<>>
    /\ overlapped' = Busy
    /\ runFails' = 0
    /\ runCatches' = 0
    /\ runDelays' = 0
    /\ UNCHANGED <<platform, wsCalls, mounted, location, mapRegion, retryCount, reports, ws>>

\* the retry timer of chain i fires: the same closure runs again
RetryTimerFires(i) ==
    /\ i <= Len(calls)
    /\ calls[i].pc = "timer"
    /\ calls' = [calls EXCEPT ![i].pc = "services"]
    /\ loading' = SetState(loading, TRUE)
    /\ errorMsg' = SetState(errorMsg, Null)
    /\ alerts' = <<>>
    /\ posts' = <<>>
    /\ runDelays' = Count(runDelays)
    /\ UNCHANGED <<platform, wsCalls, mounted, location, mapRegion, retryCount, reports,
                   ws, runFails, runCatches, overlapped>>

\* Location.hasServicesEnabledAsync() settles
ServicesResolved(i, outcome) ==
    /\ i <= Len(calls)
    /\ calls[i].pc = "services"
    /\ outcome \in ServicesOutcomes
    /\ CASE outcome = "enabled" ->
              /\ calls' = [calls EXCEPT ![i].pc = "permission"]
              /\ UNCHANGED <<errorMsg, loading>>
         [] outcome = "disabled" ->
              /\ calls' = Remove(calls, i)
              /\ errorMsg' = SetState(errorMsg, ServicesDisabledError)
              /\ loading' = SetState(loading, FALSE)
         [] outcome = "throws" ->
              /\ calls' = Remove(calls, i)
              /\ loading' = SetState(loading, FALSE)
              /\ UNCHANGED errorMsg
    /\ alerts' = <<>>
    /\ posts' = <<>>
    /\ UNCHANGED <<platform, wsCalls, mounted, location, mapRegion, retryCount, reports,
                   ws, hist>>

\* the catch branch of getCurrentLocation followed by its finally
CatchEffects(i, cause) ==
    /\ IF ShouldRetry(calls[i].retryCount)
       THEN /\ retryCount' = SetState(retryCount, Sat(retryCount, MaxRetryCount))
            /\ calls' = [calls EXCEPT ![i].pc = "timer"]
            /\ alerts' = <<>>
            /\ UNCHANGED errorMsg
       ELSE /\ errorMsg' = SetState(errorMsg, FailedToGetLocation(cause))
            /\ alerts' = <<LocationErrorAlert>>
            /\ calls' = Remove(calls, i)
            /\ UNCHANGED retryCount
    /\ loading' = SetState(loading, FALSE)
    /\ posts' = <<>>
    /\ UNCHANGED <<platform, wsCalls, mounted, reports, ws>>

CatchBranchClearsLocation(i, cause) ==
    /\ CatchEffects(i, cause)
    /\ location' = Null
    /\ mapRegion' = Undefined
CatchBranch(i, cause) ==
    /\ CatchEffects(i, cause)
    /\ UNCHANGED <<location, mapRegion>>

\* the request was answered, and not with a grant
PermissionDeniedKeepsLoading(i) ==
    /\ calls' = Remove(calls, i)
    /\ errorMsg' = SetState(errorMsg, PermissionDeniedError)
    /\ alerts' = <<>>
    /\ posts' = <<>>
    /\ UNCHANGED <<platform, wsCalls, mounted, location, mapRegion, loading,
                   retryCount, reports, ws, hist>>
PermissionDenied(i) ==
    /\ calls' = Remove(calls, i)
    /\ errorMsg' = SetState(errorMsg, PermissionDeniedError)
    /\ loading' = SetState(loading, FALSE)
    /\ alerts' = <<>>
    /\ posts' = <<>>
    /\ UNCHANGED <<platform, wsCalls, mounted, location, mapRegion, retryCount, reports,
                   ws, hist>>

PermissionGranted(i) ==
    /\ calls' = [calls EXCEPT ![i].pc = "fix"]
    /\ alerts' = <<>>
    /\ posts' = <<>>
    /\ UNCHANGED <<platform, wsCalls, mounted, acq, reports, ws, hist>>

\* the permission request settles
PermissionResolved(i, answer) ==
    /\ i <= Len(calls)
    /\ calls[i].pc = "permission"
    /\ IF platform = "android"
       THEN /\ answer \in AndroidAnswers
            /\ IF requestAndroidPermission(answer)
               THEN PermissionGranted(i)
               ELSE PermissionDenied(i)
       ELSE /\ answer \in IosAnswers
            /\ IF answer = "throws"
               THEN /\ \E cause \in Causes : CatchBranch(i, cause)
                    /\ runCatches' = IF ShouldRetry(calls[i].retryCount)
                                     THEN Count(runCatches) ELSE runCatches
                    /\ UNCHANGED <<runFails, runDelays, overlapped>>
               ELSE IF IosHasPermission(answer)
                    THEN PermissionGranted(i)
                    ELSE PermissionDenied(i)

\* Location.getCurrentPositionAsync resolves with a fix
FixResolved(i, fix) ==
    /\ i <= Len(calls)
    /\ calls[i].pc = "fix"
    /\ fix \in Fixes
    /\ location' = SetState(location, fix)
    /\ mapRegion' = SetState(mapRegion, RegionOf(fix))
    /\ retryCount' = SetState(retryCount, RetryCountAfterFix(retryCount))
    /\ loading' = SetState(loading, FALSE)
    /\ calls' = Remove(calls, i)
    /\ alerts' = <<>>
    /\ posts' = <<>>
    /\ UNCHANGED <<platform, wsCalls, mounted, errorMsg, reports, ws, runFails, runCatches,
                   runDelays, overlapped>>

\* Location.getCurrentPositionAsync rejects
FixRejected(i) ==
    /\ i <= Len(calls)
    /\ calls[i].pc = "fix"
    /\ \E cause \in Causes : CatchBranch(i, cause)
    /\ runFails' = Count(runFails)
    /\ runCatches' = IF ShouldRetry(calls[i].retryCount)
                     THEN Count(runCatches) ELSE runCatches
    /\ UNCHANGED <<runDelays, overlapped>>

CallStep(i) ==
    \/ RetryTimerFires(i)
    \/ \E outcome \in ServicesOutcomes : ServicesResolved(i, outcome)
    \/ \E answer \in AndroidAnswers \cup IosAnswers : PermissionResolved(i, answer)
    \/ \E fix \in Fixes : FixResolved(i, fix)
    \/ FixRejected(i)

\* --------------------------------------------------- reporting flow
\* a call of sendLocationToServer from a closure holding loc
ReportClearsError(loc) ==
    /\ alerts' = sendLocationToServer(loc).alerts
    /\ posts' = sendLocationToServer(loc).posts
    /\ Len(reports) + Len(posts') <= MaxReports
    /\ reports' = reports \o posts'
    /\ errorMsg' = Null
    /\ UNCHANGED <<platform, wsCalls, mounted, location, mapRegion, loading,
                   retryCount, calls, ws, hist>>
Report(loc) ==
    /\ alerts' = sendLocationToServer(loc).alerts
    /\ posts' = sendLocationToServer(loc).posts
    /\ Len(reports) + Len(posts') <= MaxReports
    /\ reports' = reports \o posts'
    /\ UNCHANGED <<platform, wsCalls, mounted, acq, calls, ws, hist>>

\* the send button: disabled={!location}, handler of the current render
SendPress ==
    /\ mounted
    /\ location # Null
    /\ Report(location)

\* the response of the oldest outstanding POST, or its failure
HttpRespondsRetries(outcome) ==
    /\ reports # <<>>
    /\ outcome \in HttpOutcomes
    /\ reports' = IF outcome = "throws" THEN reports ELSE Tail(reports)
    /\ alerts' = CASE outcome = "success" -> <<SuccessAlert>>
                   [] outcome = "failure" -> <<FailedAlert>>
                   [] outcome = "throws" -> <<SendErrorAlert>>
    /\ posts' = IF outcome = "throws" THEN <<Head(reports)>> ELSE <<>>
    /\ UNCHANGED <<platform, wsCalls, mounted, acq, calls, ws, hist>>
HttpResponds(outcome) ==
    /\ reports # <<>>
    /\ outcome \in HttpOutcomes
    /\ reports' = Tail(reports)
    /\ alerts' = CASE outcome = "success" -> <<SuccessAlert>>
                   [] outcome = "failure" -> <<FailedAlert>>
                   [] outcome = "throws" -> <<SendErrorAlert>>
    /\ posts' = <<>>
    /\ UNCHANGED <<platform, wsCalls, mounted, acq, calls, ws, hist>>

\* ws.onopen
WsOpenReports ==
    /\ ws = "connecting"
    /\ ws' = "open"
    /\ alerts' = sendLocationToServer(MountRenderLocation).alerts
    /\ posts' = sendLocationToServer(MountRenderLocation).posts
    /\ UNCHANGED <<platform, wsCalls, mounted, acq, calls, reports, hist>>
WsOpen ==
    /\ ws = "connecting"
    /\ ws' = "open"
    /\ alerts' = <<>>
    /\ posts' = <<>>
    /\ UNCHANGED <<platform, wsCalls, mounted, acq, calls, reports, hist>>

\* ws.onmessage: sendLocationToServer of the first render
WsMessage ==
    /\ ws = "open"
    /\ Report(MountRenderLocation)

\* ws.onerror
WsErrorReconnects ==
    /\ ws \in {"connecting", "open"}
    /\ ws' = "connecting"
    /\ wsCalls' = [wsCalls EXCEPT !.new = @ + 1]
    /\ alerts' = <<WebSocketErrorAlert>>
    /\ posts' = <<>>
    /\ UNCHANGED <<platform, mounted, acq, calls, reports, hist>>
WsError ==
    /\ ws \in {"connecting", "open"}
    /\ alerts' = <<WebSocketErrorAlert>>
    /\ posts' = <<>>
    /\ UNCHANGED <<platform, wsCalls, mounted, acq, calls, reports, ws, hist>>

\* ws.onclose
WsClose ==
    /\ ws \in {"connecting", "open", "closing"}
    /\ ws' = "closed"
    /\ alerts' = <<>>
    /\ posts' = <<>>
    /\ UNCHANGED <<platform, wsCalls, mounted, acq, calls, reports, hist>>

\* the screen is torn down: the effect cleanup calls ws.close()
Unmount ==
    /\ mounted
    /\ mounted' = FALSE
    /\ ws' = IF ws = "closed" THEN "closed" ELSE "closing"
    /\ wsCalls' = [wsCalls EXCEPT !.close = @ + 1]
    /\ alerts' = <<>>
    /\ posts' = <<>>
    /\ UNCHANGED <<platform, acq, calls, reports, hist>>

Next ==
    \/ RefreshPress
    \/ \E i \in Slots : CallStep(i)
    \/ SendPress
    \/ \E outcome \in HttpOutcomes : HttpResponds(outcome)
    \/ WsOpen
    \/ WsMessage
    \/ WsError
    \/ WsClose
    \/ Unmount

Spec == Init /\ [][Next]_vars

\* The acquisition flow on its own, overlapping chains included.  The steps
\* left out neither write a variable the acquisition flow reads nor read one
\* it writes, except `location`, which they only read.
NextAcq ==
    \/ RefreshPress
    \/ \E i \in Slots : CallStep(i)

AcqSpec == Init /\ [][NextAcq]_vars

\* The whole screen, with refresh pressed only while no acquisition is under way.
RefreshAtRest ==
    /\ ~Busy
    /\ RefreshPress

NextAtRest ==
    \/ RefreshAtRest
    \/ \E i \in Slots : CallStep(i)
    \/ SendPress
    \/ \E outcome \in HttpOutcomes : HttpResponds(outcome)
    \/ WsOpen
    \/ WsMessage
    \/ WsError
    \/ WsClose
    \/ Unmount

RestSpec == Init /\ [][NextAtRest]_vars

\* every settled native call, every timer and every HTTP response is delivered
Fairness ==
    /\ \A i \in Slots : WF_vars(CallStep(i))
    /\ WF_vars(\E outcome \in HttpOutcomes : HttpResponds(outcome))

FairRestSpec == Init /\ [][NextAtRest]_vars /\ Fairness

TypeOK ==
    /\ location \in Fixes \cup {Null}
    /\ mapRegion = (IF location = Null THEN Undefined ELSE RegionOf(location))
    /\ loading \in BOOLEAN
    /\ retryCount \in 0..MaxRetryCount
    /\ Len(calls) <= MaxCalls
    /\ Len(reports) <= MaxReports
    /\ mounted \/ ws \in {"closing", "closed"}

\* ======================================================== claims C1..C10

\* C1 (as claimed): a message arriving while a Position is recorded issues
\* exactly one POST carrying the recorded latitude and longitude.
C1_MessagePostsRecordedPosition ==
    [][(WsMessage /\ location # Null) =>
          /\ posts' = <<[lat |-> location.coords.latitude,
                         long |-> location.coords.longitude]>>
          /\ alerts' = <<>>]_vars

\* C2 (as claimed): the third consecutive fix failure of an acquisition
\* schedules no retry and surfaces the terminal error: errorMsg 'Failed to
\* get location: <cause>' of type 'error' and the 'Location Error' alert.
C2_ThirdFailureIsTerminal ==
    [][\A i \in Slots :
          (FixRejected(i) /\ runFails = MAX_RETRIES - 1) =>
             /\ calls' = Remove(calls, i)
             /\ \E cause \in Causes :
                   errorMsg' = [message |-> "Failed to get location: " \o cause,
                                type |-> "error"]
             /\ alerts' = <<LocationErrorAlert>>]_vars

\* C3 (as claimed): every acquisition eventually comes to rest, with no
\* attempt in flight and no retry timer pending.  Stated for Android, where
\* only a failed position fix reaches the catch branch.
C3_AcquisitionTerminates == (platform = "android" /\ Busy) ~> ~Busy

\* C4: a report attempt made while no Position is recorded issues no POST and
\* raises exactly the 'Location data is not available...' alert, and the send
\* button cannot be pressed in such a state.
C4_NoPositionNoPost ==
    [][location = Null =>
          /\ ~SendPress
          /\ WsMessage =>
                /\ posts' = <<>>
                /\ reports' = reports
                /\ Len(alerts') = 1
                /\ alerts'[1].title = "Error"
                /\ alerts'[1].message =
                      "Location data is not available. Please refresh your location."]_vars

C4_Witness ==
    /\ ws = "open"
    /\ location = Null
    /\ alerts = <<NoLocationAlert>>
    /\ posts = <<>>
    /\ reports = <<>>

\* C5: a press of the send button issues exactly one POST, and its lat/long
\* are the coordinates of the Position recorded last.
C5_SendPostsLatestPosition ==
    [][SendPress =>
          /\ posts' = <<[lat |-> location.coords.latitude,
                         long |-> location.coords.longitude]>>
          /\ reports' = reports \o posts'
          /\ alerts' = <<>>]_vars

\* the send button was pressed again after a new, different fix was recorded
C5_Witness ==
    /\ Len(reports) = 2
    /\ reports[1] # reports[2]
    /\ posts = <<reports[2]>>
    /\ reports[2] = [lat |-> location.coords.latitude,
                      long |-> location.coords.longitude]

\* C6: only the step that records a successful fix changes the Position or
\* the map region: every other step of an attempt (services disabled, service
\* check error, permission denied, retryable or terminal failure, a retry or
\* a refresh starting) leaves both as they were, and a recorded Position is
\* never cleared, also while attempts overlap.
C6_FailureKeepsPosition ==
    [][/\ (~ \E i \in Slots, fix \in Fixes : FixResolved(i, fix)) =>
             UNCHANGED <<location, mapRegion>>
       /\ location # Null => location' # Null]_vars

\* a chain failed for good while another one, started during it, still waits
\* for its retry, and the Position recorded earlier is still there
C6_Witness ==
    /\ overlapped
    /\ location # Null
    /\ mapRegion = RegionOf(location)
    /\ \E cause \in Causes : errorMsg = FailedToGetLocation(cause)
    /\ alerts = <<LocationErrorAlert>>
    /\ Len(calls) = 1
    /\ calls[1].pc = "timer"

\* C7 (as claimed): each of up to 3 consecutive fix failures adds exactly 1 to
\* retryCount, a successful fix sets it to 0, and the services-disabled and
\* permission-denied outcomes leave it alone.  The first part is stated for
\* Android, where only a failed position fix reaches the catch branch, so
\* that retryCount < MAX_RETRIES says that fewer than 3 failures have been
\* counted since the last success.
C7_RetryCountCountsFailures ==
    [][\A i \in Slots :
          /\ (FixRejected(i) /\ platform = "android" /\ retryCount < MAX_RETRIES) =>
                retryCount' = retryCount + 1
          /\ (\E fix \in Fixes : FixResolved(i, fix)) => retryCount' = 0
          /\ (\/ ServicesResolved(i, "disabled")
              \/ (i <= Len(calls) /\ calls[i].pc = "permission" /\ PermissionDenied(i))) =>
                retryCount' = retryCount]_vars

\* C8 (as claimed): when the fix fails k times, 1 <= k <= 3, and then
\* succeeds with no user action in between, the run ends with the fix
\* recorded, retryCount 0, loading false, errorMsg null, nothing pending and
\* no alert, after exactly k retry delays.
C8_SuccessAfterKFailures ==
    [][\A i \in Slots, fix \in Fixes :
          (FixResolved(i, fix) /\ ~overlapped /\ runFails \in 1..MAX_RETRIES) =>
             /\ location' = fix
             /\ retryCount' = 0
             /\ loading' = FALSE
             /\ errorMsg' = Null
             /\ calls' = <<>>
             /\ alerts' = <<>>
             /\ runDelays = runFails]_vars

\* C8 (amended): as above, but the run has seen one retry delay per caught
\* failure: exactly k when no permission request threw (always so on
\* Android), and one more for every iOS permission request that threw.
C8_SuccessAfterKFailuresAmended ==
    [][\A i \in Slots, fix \in Fixes :
          (FixResolved(i, fix) /\ ~overlapped /\ runFails \in 1..MAX_RETRIES) =>
             /\ location' = fix
             /\ retryCount' = 0
             /\ loading' = FALSE
             /\ errorMsg' = Null
             /\ calls' = <<>>
             /\ alerts' = <<>>
             /\ runDelays = runCatches
             /\ runDelays >= runFails
             /\ platform = "android" => runDelays = runFails]_vars

\* a run on its own that counted 2 failures and 2 delays and then reset
\* retryCount, which only a successful fix does
C8_Witness ==
    /\ ~overlapped
    /\ runFails = 2
    /\ runDelays = 2
    /\ retryCount = 0
    /\ location # Null
    /\ errorMsg = Null
    /\ ~loading
    /\ alerts = <<>>
    /\ calls = <<>>

\* C9: when location services are disabled the attempt ends in that step with
\* the warning 'Location services are disabled...', loading false, retryCount
\* unchanged, no alert, and without going on to the permission request, the
\* position fix or a retry timer.
C9_ServicesDisabledEndsAttempt ==
    [][\A i \in Slots :
          ServicesResolved(i, "disabled") =>
             /\ errorMsg'.type = "warning"
             /\ errorMsg'.message =
                   "Location services are disabled. Please enable them in your device settings."
             /\ loading' = FALSE
             /\ retryCount' = retryCount
             /\ calls' = Remove(calls, i)
             /\ alerts' = <<>>]_vars

C9_Witness ==
    /\ errorMsg = ServicesDisabledError
    /\ retryCount = 0
    /\ ~loading
    /\ calls = <<>>

\* C10: when the permission request is answered with anything but allow, or
\* the Android request throws, the attempt ends with the error 'Location
\* permission denied...', loading false, retryCount unchanged, and without
\* going on to the position fix or a retry timer.
C10_PermissionDeniedEndsAttempt ==
    [][\A i \in Slots, answer \in AndroidAnswers \cup IosAnswers :
          (/\ PermissionResolved(i, answer)
           /\ answer # "granted"
           /\ answer = "throws" => platform = "android") =>
             /\ errorMsg' = [message |-> "Location permission denied. Please enable it in app settings.",
                             type |-> "error"]
             /\ loading' = FALSE
             /\ retryCount' = retryCount
             /\ calls' = Remove(calls, i)
             /\ alerts' = <<>>]_vars

C10_Witness ==
    /\ errorMsg = PermissionDeniedError
    /\ retryCount = 0
    /\ ~loading
    /\ calls = <<>>

\* ======================================================= claims C11..C19

\* C11 (as claimed): in every reachable state, whenever an acquisition
\* attempt is in flight loading is true, also when refresh was pressed during
\* another attempt or while a retry timer was pending.
C11_InFlightImpliesLoading == InFlight => loading

\* C12: the step that ends an attempt (services disabled or check error,
\* permission denied, fix success, retryable or terminal failure) sets loading
\* to false, no earlier step of the attempt touches loading, and after every
\* step loading is false when no attempt is in flight, also while retry
\* timers are pending.
C12_AttemptEndClearsLoading ==
    [][/\ \A i \in Slots :
             (i <= Len(calls) /\ calls[i].pc # "timer" /\ CallStep(i)) =>
                IF Len(calls') < Len(calls) \/ calls'[i].pc = "timer"
                THEN loading' = FALSE
                ELSE loading' = loading
       /\ ~InFlight' => ~loading']_vars

\* two chains, started one during the other, both wait for their retry timer
C12_Witness ==
    /\ Len(calls) = 2
    /\ ~InFlight
    /\ ~loading

\* C13: over the lifetime of the screen new WebSocket() has run exactly once
\* (at mount), ws.close() has run exactly once after teardown and not at all
\* before it, whatever error or close events arrived, and ws.send() never runs.
C13_OneSocketClosedOnce ==
    /\ wsCalls.new = 1
    /\ wsCalls.send = 0
    /\ wsCalls.close = (IF mounted THEN 0 ELSE 1)
    /\ mounted => ws # "closing"

\* the screen was torn down and the connection has closed
C13_Witness ==
    /\ ~mounted
    /\ ws = "closed"
    /\ wsCalls = [new |-> 1, close |-> 1, send |-> 0]

\* C14: no step of a report attempt (the call from the send button or from a
\* socket message, and the handling of the HTTP response, of a failure flag
\* or of a thrown request) changes Position, map region, errorMsg, loading or
\* retryCount; a thrown request ends in the 'Failed to send location to
\* server' alert and touches nothing else.
C14_ReportKeepsAcquisitionState ==
    [][/\ (SendPress \/ WsMessage \/ \E outcome \in HttpOutcomes : HttpResponds(outcome)) =>
             UNCHANGED <<location, mapRegion, errorMsg, loading, retryCount>>
       /\ HttpResponds("throws") =>
             /\ alerts' = <<SendErrorAlert>>
             /\ UNCHANGED <<calls, ws, mounted>>]_vars

\* a request threw after a refresh had ended in an error: the Position and
\* the error are both still there
C14_Witness ==
    /\ alerts = <<SendErrorAlert>>
    /\ location # Null
    /\ errorMsg # Null
    /\ mounted

C16_EveryErrorSurfaces ==
    [][\A i \in Slots :
          (/\ i <= Len(calls)
           /\ calls[i].pc # "timer"
           /\ CallStep(i)
           /\ Len(calls') < Len(calls)
           /\ ~ \E fix \in Fixes : FixResolved(i, fix)) =>
             errorMsg' # Null \/ alerts' # <<>>]_vars

\* C17 (as claimed): at most one acquisition attempt is in flight, and a
\* refresh press starts no attempt while another attempt is in flight or a
\* retry timer is pending.
C17_NoConcurrentReacquisition ==
    [][/\ RefreshPress => ~Busy
       /\ Cardinality({i \in 1..Len(calls') : calls'[i].pc # "timer"}) <= 1]_vars

\* C18: the open, close and error events of the socket issue no POST, start
\* no report attempt and leave Position, errorMsg, loading and retryCount
\* alone; open and close raise no alert, error raises the 'WebSocket Error'
\* alert, and a message runs a report attempt (which alerts or posts).
C18_SocketEventsFrame ==
    [][/\ (WsOpen \/ WsClose \/ WsError) =>
             /\ posts' = <<>>
             /\ reports' = reports
             /\ UNCHANGED <<location, errorMsg, loading, retryCount>>
       /\ (WsOpen \/ WsClose) => alerts' = <<>>
       /\ WsError => alerts' = <<WebSocketErrorAlert>>
       /\ WsMessage => Len(alerts') + Len(posts') = 1]_vars

\* a connection error arrived on the open socket while a Position is recorded
\* and a request is outstanding
C18_Witness ==
    /\ alerts = <<WebSocketErrorAlert>>
    /\ ws = "open"
    /\ location # Null
    /\ Len(reports) = 1

\* C19 (as claimed): once the screen is torn down no acquisition attempt
\* starts, from a retry timer or otherwise, no acquisition state is written,
\* and the socket triggers no report attempt.
C19_NothingAfterTeardown ==
    [][~mounted =>
          /\ UNCHANGED <<location, errorMsg, mapRegion, loading, retryCount>>
          /\ ~ \E i \in Slots : RetryTimerFires(i)
          /\ ~RefreshPress
          /\ ~WsMessage]_vars
====
